---------------------------- MODULE Spec2Model ----------------------------
(* A model of SudokuSolver.py: the recursive solve() as an explicit call   *)
(* stack, propagate() as the steps of its while-loop, and the geometry,    *)
(* prune and updateConstraints helpers as operators.                        *)
EXTENDS Integers, Sequences, FiniteSets

(***************************************************************************)
(* Geometry                                                                *)
(***************************************************************************)
\* range(i*9, (i+1)*9): a group has 9 members
Side == 9
\* k/3, k%3 in getBox: a box is 3 cells wide and 3 cells high
BoxSide == 3

Cells == 0..(Side * Side - 1)
Values == 1..Side
GroupIds == 0..(Side - 1)

getRow(i) == (i * Side)..((i + 1) * Side - 1)

\* range(i, 73+i, 9) = i, i+9, ..., i+72
getCol(i) == {i + Side * k : k \in 0..(Side - 1)}

getBox(k) ==
    LET start == (k \div BoxSide) * (BoxSide * Side) + (k % BoxSide) * BoxSide
    IN  UNION {(start + Side * r)..(start + Side * r + BoxSide - 1) :
                 r \in 0..(BoxSide - 1)}

toRow(idx) == idx \div Side

toCol(idx) == idx % Side

toBox(idx) == (toRow(idx) \div BoxSide) * BoxSide + toCol(idx) \div BoxSide

\* constraints = [getBox, getRow, getCol], each applied to range(9):
\* group number g of the 27 visited by the hidden-single loop, in loop order
NumGroups == BoxSide * Side
GroupAt(g) ==
    IF g < Side THEN getBox(g)
    ELSE IF g < 2 * Side THEN getRow(g - Side)
    ELSE getCol(g - 2 * Side)

\* the cells updateConstraints visits for idx: its box, its row, its column
Neighbours(idx) == getBox(toBox(idx)) \cup getRow(toRow(idx)) \cup getCol(toCol(idx))

(***************************************************************************)
(* The grid: a square is [value, set of possible values]                  *)
(***************************************************************************)
\* lines 31-35: a given gets the empty set, a 0 gets all of 1..9
MakeSudoku(grid) ==
    [val  |-> grid,
     cand |-> [i \in Cells |-> IF grid[i] = 0 THEN Values ELSE {}]]

\* the values of a group's squares that are not 0
FixedIn(val, group) == {val[j] : j \in group} \ {0}

prune(s) ==
    LET rows  == [r \in GroupIds |-> Values \ FixedIn(s.val, getRow(r))]
        cols  == [c \in GroupIds |-> Values \ FixedIn(s.val, getCol(c))]
        boxes == [b \in GroupIds |-> Values \ FixedIn(s.val, getBox(b))]
    IN  [s EXCEPT !.cand = [i \in Cells |->
            IF s.val[i] = 0
            THEN ((s.cand[i] \cap rows[toRow(i)]) \cap cols[toCol(i)])
                     \cap boxes[toBox(i)]
            ELSE s.cand[i]]]

updateConstraintsNoCol(s, idx, value) ==
    [s EXCEPT !.cand = [i \in Cells |->
        IF i \in (getBox(toBox(idx)) \cup getRow(toRow(idx))) /\ s.val[i] = 0
        THEN s.cand[i] \ {value}
        ELSE s.cand[i]]]

updateConstraints(s, idx, value) ==
    [s EXCEPT !.cand = [i \in Cells |->
        IF i \in Neighbours(idx) /\ s.val[i] = 0
        THEN s.cand[i] \ {value}
        ELSE s.cand[i]]]

\* isSolved on a list of ints: no element is 0
isSolved(list) == \A i \in Cells : list[i] # 0

(***************************************************************************)
(* propagate: the two rules of the while-loop                              *)
(***************************************************************************)
Min(S) == CHOOSE x \in S : \A y \in S : x <= y

\* lines 89-91: the squares from index `from` on whose set has one element
NakedFrom(s, from) == {j \in Cells : j >= from /\ Cardinality(s.cand[j]) = 1}

\* lines 92-94: s[0] = s[1].pop(); updateConstraints(sudoku, i, s[0])
fixNaked(s, j) ==
    LET v == CHOOSE x \in s.cand[j] : TRUE
    IN  updateConstraints([val  |-> [s.val EXCEPT ![j] = v],
                           cand |-> [s.cand EXCEPT ![j] = {}]], j, v)

\* lines 105-113: data[option] = [count, index] over the open squares of a group
data(s, group) ==
    [k \in Values |-> {idx \in group : s.val[idx] = 0 /\ k \in s.cand[idx]}]

\* lines 114-115: the <<key, index>> pairs of a group with data[key][0] == 1
hiddenSingles(s, group) ==
    LET d == data(s, group)
    IN  {<<k, CHOOSE idx \in d[k] : TRUE>> : k \in {x \in Values : Cardinality(d[x]) = 1}}

\* the groups from number `from` on in which the loop of lines 114-119 acts
HiddenFrom(s, from) ==
    {g \in 0..(NumGroups - 1) : g >= from /\ hiddenSingles(s, GroupAt(g)) # {}}

\* lines 116-119
fixHidden(s, idx, key) ==
    updateConstraints([val  |-> [s.val EXCEPT ![idx] = key],
                       cand |-> [s.cand EXCEPT ![idx] = {}]], idx, key)

(***************************************************************************)
(* solve: the checks and the search loop                                   *)
(***************************************************************************)
Open(s) == {i \in Cells : s.val[i] = 0}

ContradictionAnyEmpty(s) == \E i \in Cells : s.cand[i] = {}

\* lines 47-49
Contradiction(s) == \E i \in Cells : s.val[i] = 0 /\ s.cand[i] = {}

\* lines 52-59
frequency(s) == [p \in Values |-> Cardinality({i \in Open(s) : p \in s.cand[i]})]

\* lines 63-64: sorted() by len of the set is stable, so equal lengths keep
\* index order
Before(s, a, b) ==
    \/ Cardinality(s.cand[a]) < Cardinality(s.cand[b])
    \/ Cardinality(s.cand[a]) = Cardinality(s.cand[b]) /\ a < b

\* the first element of a set of squares in sortedIndices order
First(s, S) == CHOOSE a \in S : \A b \in S \ {a} : Before(s, a, b)

\* lines 65-67: the open squares the outer loop has still to visit after `cell`
\* (-1: the loop has not started)
LaterFirstOnly(s, cell) ==
    IF cell = -1 THEN Open(s) ELSE {}

Later(s, cell) ==
    IF cell = -1 THEN Open(s) ELSE {c \in Open(s) : Before(s, cell, c)}

\* line 70: sorted(s[1], key = frequency): the values that may come next are
\* the untried ones of least frequency (the order among equal frequencies is
\* the set's iteration order, which the code does not fix)
NextValues(s, c, tried) ==
    LET f == frequency(s)
        rest == s.cand[c] \ tried
    IN  {v \in rest : \A w \in rest : f[v] <= f[w]}

\* lines 71-72
branchShifted(s, i, v) == [s.val EXCEPT ![(i + 1) % (Side * Side)] = v]

branch(s, i, v) == [s.val EXCEPT ![i] = v]

\* line 74: soln and isSolved(soln)
Accepts(r) == r.kind = "list" /\ isSolved(r.list)

(***************************************************************************)
(* Inputs: a solved grid with some squares erased and, possibly, one given *)
(* replaced by a digit that its row already holds                          *)
(***************************************************************************)
SolvedSeq ==
    << 4, 5, 7,  6, 1, 2,  3, 8, 9,
       1, 2, 3,  8, 9, 7,  6, 4, 5,
       6, 8, 9,  3, 4, 5,  1, 2, 7,

       2, 3, 5,  1, 7, 4,  8, 9, 6,
       7, 9, 1,  2, 8, 6,  5, 3, 4,
       8, 4, 6,  5, 3, 9,  2, 7, 1,

       3, 6, 4,  7, 2, 1,  9, 5, 8,
       5, 7, 2,  9, 6, 8,  4, 1, 3,
       9, 1, 8,  4, 5, 3,  7, 6, 2 >>

Solved == [i \in Cells |-> SolvedSeq[i + 1]]

\* the squares erased from the solved grid: a puzzle whose propagation stops
\* short of the solution, and the four corners of a rectangle that leaves two
\* completions
HoleSets ==
    { {2, 8, 9, 11, 20, 26, 37, 38, 54, 59, 72, 73, 77},
      {2, 8, 20, 26} }

\* <<square, digit>>: the digit is already in the square's row
Conflicts == { <<28, 2>>, <<0, 2>>, <<0, 1>> }

\* how many of the erased squares may be given back
MaxKept == 2

Puzzle(holes, conflict) ==
    [i \in Cells |->
        IF i \in holes THEN 0
        ELSE IF conflict # <<>> /\ conflict[1] = i THEN conflict[2]
        ELSE Solved[i]]

Inputs ==
    { Puzzle(H \ K, c) :
        <<H, K, c>> \in
          { t \in HoleSets \X (SUBSET (UNION HoleSets)) \X (Conflicts \cup {<<>>}) :
              t[2] \subseteq t[1] /\ Cardinality(t[2]) <= MaxKept } }

(***************************************************************************)
(* State                                                                   *)
(***************************************************************************)
VARIABLES
    input,   \* the list given to the top-level call of solve
    stack,   \* the active calls of solve, the innermost last
    ret      \* the value the last call to return has returned

vars == <<input, stack, ret>>

ZeroList == [i \in Cells |-> 0]
Pending  == [kind |-> "pending", list |-> ZeroList]
None     == [kind |-> "None", list |-> ZeroList]
List(l)  == [kind |-> "list", list |-> l]

\* lines 31-36 and the locals of solve and propagate
Frame(grid) ==
    [grid    |-> grid,
     s       |-> prune(MakeSudoku(grid)),
     pc      |-> "naked",
     changed |-> FALSE,
     i       |-> 0,
     g       |-> 0,
     pending |-> {},
     rounds  |-> 1,
     cell    |-> -1,
     tried   |-> {},
     guess   |-> 0]

Top == stack[Len(stack)]
SetTop(f) == [stack EXCEPT ![Len(stack)] = f]
Pop == SubSeq(stack, 1, Len(stack) - 1)
Running == stack # <<>>
Idle == stack = <<>> /\ ret.kind = "pending"
Done == stack = <<>> /\ ret.kind # "pending"

Init ==
    /\ input \in Inputs
    /\ stack = <<>>
    /\ ret = Pending

\* the top-level call solve(grid)
Solve ==
    /\ Idle
    /\ stack' = <<Frame(input)>>
    /\ UNCHANGED <<input, ret>>

\* lines 89-94: the next square with one possible value is fixed
NakedSingle ==
    /\ Running /\ Top.pc = "naked"
    /\ NakedFrom(Top.s, Top.i) # {}
    /\ LET j == Min(NakedFrom(Top.s, Top.i))
       IN  stack' = SetTop([Top EXCEPT !.s = fixNaked(Top.s, j),
                                       !.changed = TRUE,
                                       !.i = j + 1])
    /\ UNCHANGED <<input, ret>>

\* line 95: the loop of lines 89-94 is over, prune
RePrune ==
    /\ Running /\ Top.pc = "naked"
    /\ NakedFrom(Top.s, Top.i) = {}
    /\ stack' = SetTop([Top EXCEPT !.s = prune(Top.s), !.pc = "hidden", !.g = 0])
    /\ UNCHANGED <<input, ret>>

\* lines 102-113: the next group with a value that only one square can take
HiddenGroup ==
    /\ Running /\ Top.pc = "hidden"
    /\ HiddenFrom(Top.s, Top.g) # {}
    /\ LET g == Min(HiddenFrom(Top.s, Top.g))
       IN  stack' = SetTop([Top EXCEPT !.pc = "keys",
                                       !.g = g,
                                       !.pending = hiddenSingles(Top.s, GroupAt(g))])
    /\ UNCHANGED <<input, ret>>

\* lines 114-119: one key of data with count 1 (data.keys() in an order the
\* code does not fix)
HiddenSingle ==
    /\ Running /\ Top.pc = "keys"
    /\ \E p \in Top.pending :
         LET rest == Top.pending \ {p}
         IN  stack' = SetTop([Top EXCEPT
                 !.s = fixHidden(Top.s, p[2], p[1]),
                 !.pending = rest,
                 !.pc = IF rest = {} THEN "hidden" ELSE "keys",
                 !.g = IF rest = {} THEN Top.g + 1 ELSE Top.g])
    /\ UNCHANGED <<input, ret>>

\* line 86, changed is True: another iteration; line 118 sets `forced`, not
\* `changed`, so only the naked-single rule asks for one
LoopAgainIfNeverReset(f) == f.changed \/ f.rounds > 1

LoopAgainIf(f) == f.changed

LoopAgain ==
    /\ Running /\ Top.pc = "hidden"
    /\ HiddenFrom(Top.s, Top.g) = {}
    /\ LoopAgainIf(Top)
    /\ stack' = SetTop([Top EXCEPT !.pc = "naked", !.changed = FALSE, !.i = 0,
                                   !.rounds = Top.rounds + 1])
    /\ UNCHANGED <<input, ret>>

\* line 86, changed is False: propagate returns
PropagateReturn ==
    /\ Running /\ Top.pc = "hidden"
    /\ HiddenFrom(Top.s, Top.g) = {}
    /\ ~LoopAgainIf(Top)
    /\ stack' = SetTop([Top EXCEPT !.pc = "check"])
    /\ UNCHANGED <<input, ret>>

\* lines 47-49
ReturnNone ==
    /\ Running /\ Top.pc = "check"
    /\ Contradiction(Top.s)
    /\ stack' = Pop
    /\ ret' = None
    /\ UNCHANGED input

\* lines 51-64
StartSearch ==
    /\ Running /\ Top.pc = "check"
    /\ ~Contradiction(Top.s)
    /\ stack' = SetTop([Top EXCEPT !.pc = "search", !.cell = -1, !.tried = {}])
    /\ UNCHANGED <<input, ret>>

\* the square the loops of lines 65-70 are at: the current one while it has
\* values left, else the next open square of sortedIndices (-1: none left)
GuessCell(f) ==
    IF f.cell # -1 /\ f.s.cand[f.cell] \ f.tried # {} THEN f.cell
    ELSE IF Later(f.s, f.cell) = {} THEN -1
    ELSE First(f.s, Later(f.s, f.cell))

\* lines 70-73: the next guess, and the recursive call
Guess ==
    /\ Running /\ Top.pc = "search"
    /\ GuessCell(Top) # -1
    /\ LET c == GuessCell(Top)
           tried == IF c = Top.cell THEN Top.tried ELSE {}
       IN  \E v \in NextValues(Top.s, c, tried) :
             stack' = Append(SetTop([Top EXCEPT !.pc = "wait", !.cell = c,
                                                !.tried = tried, !.guess = v]),
                             Frame(branch(Top.s, c, v)))
    /\ UNCHANGED <<input, ret>>

\* line 77: the loops are over
ReturnList ==
    /\ Running /\ Top.pc = "search"
    /\ GuessCell(Top) = -1
    /\ stack' = Pop
    /\ ret' = List(Top.s.val)
    /\ UNCHANGED input

\* lines 74-75
BranchSolved ==
    /\ Running /\ Top.pc = "wait"
    /\ Accepts(ret)
    /\ stack' = Pop
    /\ UNCHANGED <<input, ret>>

\* line 74 is false: the next value
BranchFailed ==
    /\ Running /\ Top.pc = "wait"
    /\ ~Accepts(ret)
    /\ stack' = SetTop([Top EXCEPT !.pc = "search",
                                   !.tried = Top.tried \cup {Top.guess}])
    /\ ret' = Pending
    /\ UNCHANGED input

Next ==
    \/ Solve
    \/ NakedSingle
    \/ RePrune
    \/ HiddenGroup
    \/ HiddenSingle
    \/ LoopAgain
    \/ PropagateReturn
    \/ ReturnNone
    \/ StartSearch
    \/ Guess
    \/ ReturnList
    \/ BranchSolved
    \/ BranchFailed

Spec == Init /\ [][Next]_vars

(***************************************************************************)
(* What the properties speak of                                            *)
(***************************************************************************)
AllGroups == {GroupAt(g) : g \in 0..(NumGroups - 1)}

\* every row, column and box holds each of 1..9 (so each exactly once)
ValidGrid(l) == \A G \in AllGroups : {l[j] : j \in G} = Values

\* the same nonzero digit twice in one row, column or box
HasConflict(l) ==
    \E G \in AllGroups : \E a, b \in G : a # b /\ l[a] # 0 /\ l[a] = l[b]

Extends(l, givens) == \A i \in Cells : givens[i] # 0 => l[i] = givens[i]

\* the valid completions of a list, by plain enumeration
RECURSIVE Fill(_)
Fill(l) ==
    IF \A i \in Cells : l[i] # 0
    THEN IF ValidGrid(l) THEN {l} ELSE {}
    ELSE LET i == Min({j \in Cells : l[j] = 0})
         IN  UNION {Fill([l EXCEPT ![i] = v]) :
                      v \in Values \ FixedIn(l, Neighbours(i))}

Completions(l) == IF HasConflict(l) THEN {} ELSE Fill(l)

InPropagate(f) == f.pc \in {"naked", "hidden", "keys"}

\* the squares propagate has fixed in a call
FixedByCall(f) == {i \in Cells : f.grid[i] = 0 /\ f.s.val[i] # 0}

\* C1: when the top-level call returns a list without a 0, every row, column
\* and box of it holds each of 1..9 exactly once
C1_Validity ==
    (Done /\ ret.kind = "list" /\ isSolved(ret.list)) => ValidGrid(ret.list)

\* C2: a square that is nonzero in the list passed to a call of solve keeps
\* its digit in that call's grid, a guess changes no nonzero square of the
\* caller's grid, and the list the top-level call returns keeps the givens
C2_GivensKept ==
    /\ \A k \in 1..Len(stack) :
         /\ Extends(stack[k].s.val, stack[k].grid)
         /\ Extends(stack[k].grid, input)
         /\ k > 1 => Extends(stack[k].grid, stack[k - 1].s.val)
    /\ ret.kind = "list" => Extends(ret.list, input)

C2_Witness ==
    /\ Len(stack) = 2
    /\ Top.pc = "check"
    /\ Top.s.val # Top.grid

C4_NoPartial ==
    Done => \/ ret.kind = "None"
            \/ ret.kind = "list" /\ \A i \in Cells : ret.list[i] \in Values

\* C5: when a nonzero given appears twice in a row, column or box, the
\* top-level call returns None
C5_ConflictIsNone ==
    (Done /\ HasConflict(input)) => ret.kind = "None"

\* C6: when propagate has returned, no square has exactly one possible value
\* and no group has a value that exactly one of its open squares can take
C6_FixedPoint ==
    (Running /\ Top.pc = "check") =>
        /\ NakedFrom(Top.s, 0) = {}
        /\ HiddenFrom(Top.s, 0) = {}

\* C7: in every call, at every step, no possible value of an open square is
\* the value of a fixed square of its row, column or box, and a step of
\* propagate gives a square only a value that no other fixed square of its
\* row, column or box held
CandidatesSound(f) ==
    \A i \in Cells :
        f.s.val[i] = 0 => f.s.cand[i] \cap FixedIn(f.s.val, Neighbours(i)) = {}

AssignsSound(f, fnew) ==
    \A i \in Cells :
        fnew.s.val[i] # f.s.val[i] =>
            fnew.s.val[i] \notin FixedIn(f.s.val, Neighbours(i) \ {i})

C7_Soundness ==
    [][ /\ \A k \in 1..Len(stack') : CandidatesSound(stack'[k])
        /\ (Running /\ Len(stack') = Len(stack) /\ InPropagate(Top)) =>
              AssignsSound(Top, stack'[Len(stack)]) ]_vars

C7_Witness ==
    /\ Running
    /\ Top.pc = "hidden"
    /\ Top.changed
    /\ Top.g > 0

\* C8: the while-loop of propagate runs at most 2 * 81 times in a call: each
\* iteration that asks for another one has fixed an open square, so the
\* iterations begun are at most the squares fixed so far plus one
C8_Termination ==
    \A k \in 1..Len(stack) :
        /\ stack[k].rounds <= 2 * Side * Side
        /\ stack[k].rounds <= Cardinality(FixedByCall(stack[k])) + 1

C8_Witness ==
    /\ Running
    /\ Top.pc = "check"
    /\ Top.rounds >= 3

Rank(s, c) == Cardinality(s.cand[c]) * (Side * Side) + c

C10_AtLeastTwo ==
    (Running /\ Top.pc = "search") =>
        \A i \in Open(Top.s) : Cardinality(Top.s.cand[i]) >= 2

=============================================================================
